---- MODULE Spec2Model ----
(***************************************************************************)
(* LearnAI-ADPM: the running-average scoring service (score.py), the       *)
(* online exponential-weighted running average (run_avg), the windowed     *)
(* anomaly detectors (detect_ts_online, eval) and the evaluation harness   *)
(* (sample_run).                                                           *)
(*                                                                         *)
(* Each component has its own specification over the shared variables:     *)
(* Spec, SpecKeys and SpecNaN (score.py behind the webservice), SpecRace   *)
(* (two calls of run interleaved in one process), SpecRunAvg (run_avg),    *)
(* SpecDetect (the detectors), and SpecSample, SpecSampleFair and          *)
(* SpecSampleTwice (sample_run with the detector it calls).                *)
(*                                                                         *)
(* Python floats are modelled as exact rationals <<num, den>> in lowest    *)
(* terms with den > 0; every value the model feeds is a small integer, so  *)
(* the quantities compared below differ (or agree) far outside rounding.   *)
(* The float NaN is <<0, 0>>; every arithmetic operation on it yields it.  *)
(***************************************************************************)
EXTENDS Integers, Sequences, FiniteSets, TLC

VARIABLES
    script,       \* which score.py the container runs: "base" or "modified"
    running_avg,  \* score.py global running_avg
    curr_n,       \* score.py global curr_n
    since,        \* history: the requests received since the last init()
    outs,         \* history: the responses returned since the last init()
    resets,       \* history: init() has run again on globals that requests had changed
    calls,        \* the calls of run under way at once: per thread its position and locals
    ts,           \* run_avg: the argument ts, the raw values of one series
    com,          \* run_avg: the center of mass com
    rm_o,         \* run_avg: the array rm_o of running averages
    r,            \* run_avg: the loop index r
    ra_pc,        \* run_avg: "idle", "start", "loop" or "done"
    d_fn,         \* detector called: "detect_ts_online" or "eval"
    df_smooth,    \* detector argument: the timestamp column of the smoothed series
    window_size,  \* detector argument window_size
    stop,         \* detector argument stop, a row index (from 0)
    df_win,       \* detector local df_win: the timestamp column of the window
    results,      \* what detect_ts did: its flags, or the exception it raised
    is_anomaly,   \* detector local is_anomaly
    run_time,     \* detector local run_time
    d_pc,         \* detector: "idle", "called", "oracle", "returned" or "raised"
    windows,      \* history: the windows handed to detect_ts, one per evaluation of the call
    requested,    \* sample_run call: the keyword argument n_epochs, <<>> when not passed
    sr_window_size, \* sample_run argument window_size
    anoms_batch,  \* the global anoms_batch: per machine, the timestamps batch AD flagged
    n_epochs,     \* sample_run local n_epochs
    epoch,        \* sample_run: the loop index i of for i in range(0, n_epochs)
    machine,      \* sample_run: random_machines[i]
    biased,       \* sample_run: np.random.random() < p_anoms came out true for trial i
    anoms_timestamps, \* sample_run local anoms_timestamps
    counter,      \* sample_run local counter
    shuffles,     \* history: calls of np.random.shuffle in trial i
    candidate,    \* sample_run: random_timestamps[i]
    y_true_i,     \* sample_run local y_true_i
    y_true,       \* sample_run local y_true
    y_pred,       \* sample_run local y_pred
    run_times,    \* sample_run local run_times
    twice,        \* history: a second execution given the same draws is followed
    run_times_2,  \* history: run_times of that second execution
    s_result,     \* sample_run: the pair it returned, <<>> before
    s_error,      \* sample_run: the exception that ended it, "none" otherwise
    s_pc          \* sample_run: "idle", "called", "epoch", "while", "select",
                  \*             "detect", "returned" or "raised"

score_vars == <<script, running_avg, curr_n, since, outs, resets, calls>>
run_avg_vars == <<ts, com, rm_o, r, ra_pc>>
detect_vars ==
    <<d_fn, df_smooth, window_size, stop, df_win, results, is_anomaly, run_time, d_pc,
      windows>>
sample_vars ==
    <<requested, sr_window_size, anoms_batch, n_epochs, epoch, machine, biased,
      anoms_timestamps, counter, shuffles, candidate, y_true_i, y_true, y_pred,
      run_times, twice, run_times_2, s_result, s_error, s_pc>>
vars == <<score_vars, run_avg_vars, detect_vars, sample_vars>>

----------------------------------------------------------------------------
(* Bounds of the model.                                                    *)

\* requests per init() while the base script is deployed
MaxReq == 5
\* requests per init() while the modified script is deployed
MaxReqN == 3
\* requests per init() when two series post to the one service
MaxKeyReq == 3
\* requests per init() of a client that posts NaN among its values
MaxNaNReq == 3
\* rows of the smoothed series handed to a detector
MaxRows == 4
\* largest window_size handed to a detector
MaxWindow == 3
\* rows of a series handed to run_avg
MaxLen == 3
\* largest center of mass handed to run_avg
MaxCom == 2
\* trials of one call of sample_run (n_epochs, 10 in the notebook)
MaxEpochs == 2
\* evaluations of one detector call on the same arguments
MaxEvals == 2

\* measurement values a client posts, as floats
Values == {<<1, 1>>, <<2, 1>>, <<3, 1>>}
\* the optional payload field n: <<>> when the request carries none, <<k>> for n = k
NoN == <<>>
N(k) == <<k>>
\* the (machine, sensor) series an observation belongs to; score.py never reads it
Keys == {"m1.volt", "m2.volt"}
\* raw sensor values of a series handed to run_avg
SeriesValues == {0, 5, 10}
\* seconds time.time() can advance while detect_ts runs
ElapsedTimes == {0, 1}
\* the one series of the notebook's test clients
OneKey == {"m1.volt"}
\* the payload field n a client sends along while the base script is deployed
BaseNs == {NoN, N(2)}
\* the payload field n a client sends along while the modified script is deployed
ModNs == {NoN, N(-1), N(0), N(1), N(2)}
\* measurement values of a client whose sensor can fail to give a number
FloatValues == {<<1, 1>>, <<3, 1>>, <<0, 0>>}

----------------------------------------------------------------------------
(* Exact rational arithmetic for the float expressions of the code.        *)

Abs(i) == IF i < 0 THEN -i ELSE i

RECURSIVE Gcd(_, _)
Gcd(a, b) == IF b = 0 THEN a ELSE Gcd(b, a % b)

\* the rational p/q (q # 0) in lowest terms with a positive denominator
Rat(p, q) ==
    LET g == Gcd(Abs(p), Abs(q))
        s == IF q < 0 THEN -1 ELSE 1
    IN  <<(s * p) \div g, (s * q) \div g>>

RInt(i) == <<i, 1>>

\* float('nan'), what json.loads makes of the JSON literal NaN
NaN == <<0, 0>>
IsNaN(x) == x[2] = 0
AnyNaN(x, y) == IsNaN(x) \/ IsNaN(y)

RAdd(x, y) == IF AnyNaN(x, y) THEN NaN ELSE Rat(x[1] * y[2] + y[1] * x[2], x[2] * y[2])
RSub(x, y) == IF AnyNaN(x, y) THEN NaN ELSE Rat(x[1] * y[2] - y[1] * x[2], x[2] * y[2])
RMul(x, y) == IF AnyNaN(x, y) THEN NaN ELSE Rat(x[1] * y[1], x[2] * y[2])
\* x / y for y # 0
RDiv(x, y) == IF AnyNaN(x, y) THEN NaN ELSE Rat(x[1] * y[2], x[2] * y[1])

Min(a, b) == IF a <= b THEN a ELSE b
Max(a, b) == IF a >= b THEN a ELSE b

----------------------------------------------------------------------------
(* score.py                                                                *)

\* a variant of init that forgets curr_n = 0
init_keeps_count(st) == [running_avg |-> RInt(0), curr_n |-> st.curr_n]
\* init(): running_avg = 0.0, curr_n = 0
init(st) == [running_avg |-> RInt(0), curr_n |-> 0]

\* n_arg = 5 in the base script
N_ARG == 5

\* json.loads(raw_data)['n'] of the modified script raises KeyError when the
\* payload has no field n; the base script never looks the field up
n_lookup_fails(sc, req) == sc = "modified" /\ req.n = NoN

\* n_arg: the literal 5 in the base script, json.loads(raw_data)['n'] in the
\* modified script
n_arg(sc, req) == IF sc = "base" THEN N_ARG ELSE req.n[1]

\* a variant of n that drops the cap at curr_n
effective_n_is_n_arg(c, na) == na
\* n = min(curr_n, n_arg), evaluated after curr_n += 1
effective_n(c, na) == Min(c, na)

\* a variant of the update that drops the division by n
welford_no_division(avg, value, n) == RAdd(avg, RSub(value, avg))
\* a variant of the update that leaves the average alone on a NaN
welford_skips_nan(avg, value, n) ==
    IF IsNaN(value) THEN avg ELSE RAdd(avg, RDiv(RSub(value, avg), RInt(n)))
\* running_avg += (value - running_avg) / n
welford(avg, value, n) == RAdd(avg, RDiv(RSub(value, avg), RInt(n)))

\* One call of run(raw_data) on the globals st = [running_avg, curr_n]:
\* the globals afterwards and the response (json.dumps(running_avg), or the
\* exception that ends the call).
run(sc, st, req) ==
    IF n_lookup_fails(sc, req)
    THEN [running_avg |-> st.running_avg, curr_n |-> st.curr_n,
          resp |-> [status |-> "KeyError"]]
    ELSE LET c == st.curr_n + 1
             n == effective_n(c, n_arg(sc, req))
         IN  IF n = 0
             THEN [running_avg |-> st.running_avg, curr_n |-> c,
                   resp |-> [status |-> "ZeroDivisionError"]]
             ELSE LET a == welford(st.running_avg, req.value, n)
                  IN  [running_avg |-> a, curr_n |-> c,
                       resp |-> [status |-> "ok", body |-> a]]

Globals == [running_avg |-> running_avg, curr_n |-> curr_n]

\* the payloads clients of the series ks post to the deployed script
Requests(sc, ks) ==
    [value : Values, n : IF sc = "base" THEN BaseNs ELSE ModNs, key : ks]

ReqBound(sc) == IF sc = "base" THEN MaxReq ELSE MaxReqN

\* POST /score: one call of run on the globals
Post(reqs, bound) ==
    /\ Len(since) < bound
    /\ \E req \in reqs :
         LET res == run(script, Globals, req)
         IN  /\ running_avg' = res.running_avg
             /\ curr_n' = res.curr_n
             /\ since' = Append(since, req)
             /\ outs' = Append(outs, res.resp)
    /\ UNCHANGED <<script, resets, calls, run_avg_vars, detect_vars, sample_vars>>

\* a client of one series posts a measurement
Score == Post(Requests(script, OneKey), ReqBound(script))

\* clients of two series post to the same container
ScoreKeys == Post([value : Values, n : BaseNs, key : Keys], MaxKeyReq)

\* a client posts measurements that can be NaN
ScoreNaN ==
    Post([value : FloatValues, n : IF script = "base" THEN BaseNs ELSE ModNs, key : OneKey],
         MaxNaNReq)

\* the container restarts with the same script: init() runs again
Restart ==
    /\ since # <<>>
    /\ LET st == init(Globals)
       IN  /\ running_avg' = st.running_avg
           /\ curr_n' = st.curr_n
    /\ since' = <<>>
    /\ outs' = <<>>
    /\ resets' = TRUE
    /\ UNCHANGED <<script, calls, run_avg_vars, detect_vars, sample_vars>>

\* docker cp of the other score.py followed by docker restart: init() runs
Deploy ==
    /\ script' = IF script = "base" THEN "modified" ELSE "base"
    /\ LET st == init(Globals)
       IN  /\ running_avg' = st.running_avg
           /\ curr_n' = st.curr_n
    /\ since' = <<>>
    /\ outs' = <<>>
    /\ resets' = (resets \/ since # <<>>)
    /\ UNCHANGED <<calls, run_avg_vars, detect_vars, sample_vars>>

\* the container has started: init() has run once
ServiceStarted ==
    /\ script = "base"
    /\ running_avg = RInt(0)
    /\ curr_n = 0
    /\ since = <<>>
    /\ outs = <<>>
    /\ resets = FALSE

\* no two calls of run are under way at once
RaceIdle == calls = <<>>

\* no call of run_avg is under way
RunAvgIdle ==
    /\ ts = <<>>
    /\ com = 0
    /\ rm_o = <<>>
    /\ r = 0
    /\ ra_pc = "idle"

\* no call of a detector is under way
DetectIdle ==
    /\ d_fn = "none"
    /\ df_smooth = <<>>
    /\ window_size = 0
    /\ stop = 0
    /\ df_win = <<>>
    /\ results = [kind |-> "none"]
    /\ is_anomaly = FALSE
    /\ run_time = 0
    /\ d_pc = "idle"
    /\ windows = <<>>

\* no call of sample_run is under way
SampleIdle ==
    /\ requested = <<>>
    /\ sr_window_size = 0
    /\ anoms_batch = <<>>
    /\ n_epochs = 0
    /\ epoch = 0
    /\ machine = 0
    /\ biased = FALSE
    /\ anoms_timestamps = <<>>
    /\ counter = 0
    /\ shuffles = 0
    /\ candidate = 0
    /\ y_true_i = FALSE
    /\ y_true = <<>>
    /\ y_pred = <<>>
    /\ run_times = <<>>
    /\ twice = FALSE
    /\ run_times_2 = <<>>
    /\ s_result = <<>>
    /\ s_error = "none"
    /\ s_pc = "idle"

Init == ServiceStarted /\ RaceIdle /\ RunAvgIdle /\ DetectIdle /\ SampleIdle

Next == Score \/ Restart \/ Deploy

Spec == Init /\ [][Next]_vars

NextKeys == ScoreKeys \/ Restart \/ Deploy

SpecKeys == Init /\ [][NextKeys]_vars

NextNaN == ScoreNaN \/ Restart \/ Deploy

SpecNaN == Init /\ [][NextNaN]_vars

----------------------------------------------------------------------------
(* Two calls of run of the base script in one process, each on its own     *)
(* thread.  run takes no lock; the interpreter can switch threads between  *)
(* any two reads or writes of a global.  The statements of run that touch  *)
(* the globals are curr_n += 1 (a read, then a write), n = min(curr_n,     *)
(* n_arg) (a read), running_avg += (value - running_avg) / n (a read of    *)
(* the left operand, a read inside the expression, a write) and            *)
(* return json.dumps(running_avg) (a read).                                *)

Threads == {1, 2}

\* the call on thread t moves from one position to the next, its locals unchanged
Step(t, from, to) == calls[t].pc = from /\ calls' = [calls EXCEPT ![t].pc = to]

\* curr_n += 1: the read of curr_n
LoadCount(t) ==
    /\ calls[t].pc = "start"
    /\ calls' = [calls EXCEPT ![t].pc = "loaded_n", ![t].c = curr_n]
    /\ UNCHANGED <<script, running_avg, curr_n, since, outs, resets,
                   run_avg_vars, detect_vars, sample_vars>>

\* curr_n += 1: the write of curr_n
StoreCount(t) ==
    /\ Step(t, "loaded_n", "stored_n")
    /\ curr_n' = calls[t].c + 1
    /\ UNCHANGED <<script, running_avg, since, outs, resets,
                   run_avg_vars, detect_vars, sample_vars>>

\* n = min(curr_n, n_arg)
ReadCount(t) ==
    /\ calls[t].pc = "stored_n"
    /\ calls' = [calls EXCEPT ![t].pc = "has_n",
                              ![t].n = effective_n(curr_n, n_arg(script, calls[t].req))]
    /\ UNCHANGED <<script, running_avg, curr_n, since, outs, resets,
                   run_avg_vars, detect_vars, sample_vars>>

\* running_avg += ...: the read of the left operand
LoadAvg(t) ==
    /\ calls[t].pc = "has_n"
    /\ calls' = [calls EXCEPT ![t].pc = "loaded_avg", ![t].a = running_avg]
    /\ UNCHANGED <<script, running_avg, curr_n, since, outs, resets,
                   run_avg_vars, detect_vars, sample_vars>>

\* (value - running_avg) / n: the read of running_avg inside the expression
LoadDelta(t) ==
    /\ calls[t].pc = "loaded_avg"
    /\ calls' = [calls EXCEPT ![t].pc = "has_delta",
                              ![t].d = RDiv(RSub(calls[t].req.value, running_avg),
                                            RInt(calls[t].n))]
    /\ UNCHANGED <<script, running_avg, curr_n, since, outs, resets,
                   run_avg_vars, detect_vars, sample_vars>>

\* running_avg += ...: the write of running_avg
StoreAvg(t) ==
    /\ Step(t, "has_delta", "stored_avg")
    /\ running_avg' = RAdd(calls[t].a, calls[t].d)
    /\ UNCHANGED <<script, curr_n, since, outs, resets,
                   run_avg_vars, detect_vars, sample_vars>>

\* return json.dumps(running_avg)
Respond(t) ==
    /\ Step(t, "stored_avg", "done")
    /\ since' = Append(since, calls[t].req)
    /\ outs' = Append(outs, [status |-> "ok", body |-> running_avg])
    /\ UNCHANGED <<script, running_avg, curr_n, resets,
                   run_avg_vars, detect_vars, sample_vars>>

\* two requests arrive at the started container together
RaceCalled ==
    calls \in [Threads -> [pc : {"start"}, req : Requests("base", OneKey),
                           c : {0}, n : {0}, a : {RInt(0)}, d : {RInt(0)}]]

InitRace == ServiceStarted /\ RaceCalled /\ RunAvgIdle /\ DetectIdle /\ SampleIdle

NextRace ==
    \E t \in Threads :
        \/ LoadCount(t) \/ StoreCount(t) \/ ReadCount(t) \/ LoadAvg(t)
        \/ LoadDelta(t) \/ StoreAvg(t) \/ Respond(t)

SpecRace == InitRace /\ [][NextRace]_vars

----------------------------------------------------------------------------
(* Properties of the scoring service.                                      *)

\* the globals of a container whose init() has just run
Fresh == [running_avg |-> RInt(0), curr_n |-> 0]

\* the responses a container in globals st returns to the requests reqs, in order
RECURSIVE RunAll(_, _, _)
RunAll(sc, st, reqs) ==
    IF reqs = <<>> THEN <<>>
    ELSE LET res == run(sc, st, Head(reqs))
         IN  <<res.resp>> \o
             RunAll(sc, [running_avg |-> res.running_avg, curr_n |-> res.curr_n],
                    Tail(reqs))

\* prev + (value - prev) / d, for d # 0
Smoothed(prev, value, d) == RAdd(prev, RDiv(RSub(value, prev), RInt(d)))

IsPrefix(s, t) == Len(s) <= Len(t) /\ \A i \in 1..Len(s) : s[i] = t[i]

ValuesOf(reqs) == [i \in 1..Len(reqs) |-> reqs[i].value]

\* every request of reqs is served with window length w
WindowIs(sc, reqs, w) ==
    \A i \in 1..Len(reqs) : ~n_lookup_fails(sc, reqs[i]) /\ n_arg(sc, reqs[i]) = w

ScenarioA == <<RInt(1), RInt(2), RInt(3), RInt(2), RInt(1)>>

\* the responses to the first Len(since) values of scenario A are the first
\* Len(since) entries of expected
ScenarioAYields(expected) ==
    (IsPrefix(ValuesOf(since), ScenarioA) /\ WindowIs(script, since, 5))
        => \A i \in 1..Len(since) : outs[i] = [status |-> "ok", body |-> expected[i]]

\* C1 as stated: after init(), the values 1, 2, 3, 2, 1 scored with window
\* length 5 return 1.0, 1.5, 2.0, 1.875, 1.7, request by request.
C1_ScenarioA_AsStated ==
    ScenarioAYields(<<RInt(1), Rat(3, 2), RInt(2), Rat(15, 8), Rat(17, 10)>>)

\* C1 amended: after init(), the values 1, 2, 3, 2, 1 scored with window
\* length 5 return 1.0, 1.5, 2.0, 2.0, 1.8, request by request (the mean of
\* the values scored so far).
C1_ScenarioA ==
    ScenarioAYields(<<RInt(1), Rat(3, 2), RInt(2), RInt(2), Rat(9, 5)>>)

\* all five values of scenario A have been scored since init()
C1_Witness ==
    /\ ValuesOf(since) = ScenarioA
    /\ WindowIs(script, since, 5)
    /\ outs[5].status = "ok"

\* the step is a score request that returned an average
Returned == Len(since') = Len(since) + 1 /\ outs'[Len(outs')].status = "ok"

\* C2: every score request that returns, returns
\* avg_prev + (value - avg_prev) / min(curr_n + 1, n), where curr_n counts the
\* requests processed since init() and n is the window length, and leaves
\* curr_n one larger; the first request after init() returns its own value.
C2_UpdateRule ==
    [][Returned =>
        LET req == since'[Len(since')]
            body == outs'[Len(outs')].body
            d == Min(curr_n + 1, n_arg(script, req))
        IN  /\ body = Smoothed(running_avg, req.value, d)
            /\ curr_n' = curr_n + 1
            /\ (Len(since) = 0 => body = req.value)]_vars

\* the window length C3 gives a request: its field n, 5 when it has none
RequestedWindow(req) == IF req.n = NoN THEN 5 ELSE req.n[1]

\* C3: a request is served with or without the field n: a window length n
\* it carries is the one used, and without the field the request succeeds
\* with window length 5.
C3_OptionalN ==
    [][Len(since') = Len(since) + 1 =>
        LET req == since'[Len(since')]
            resp == outs'[Len(outs')]
            w == RequestedWindow(req)
        IN  w >= 1 =>
              /\ resp.status = "ok"
              /\ resp.body = Smoothed(running_avg, req.value, Min(Len(since) + 1, w))]_vars

\* C4: whatever was scored before an init(), the responses to the requests
\* that follow it are those a container whose init() has just run for the
\* first time returns to the same requests.
C4_InitResets == outs = RunAll(script, Fresh, since)

\* init() has run on globals that requests had changed, and requests followed
C4_Witness ==
    /\ resets
    /\ Len(since) >= 2
    /\ outs[Len(outs)].status = "ok"

\* the entries of seq whose request belongs to series k
RECURSIVE OfKey(_, _, _)
OfKey(k, reqs, seq) ==
    IF reqs = <<>> THEN <<>>
    ELSE (IF Head(reqs).key = k THEN <<Head(seq)>> ELSE <<>>)
         \o OfKey(k, Tail(reqs), Tail(seq))

\* C5: however the observations of two series interleave, each series gets
\* the responses it gets when its observations are scored alone.
C5_KeysIsolated ==
    \A k \in Keys :
        OfKey(k, since, outs) = RunAll(script, Fresh, OfKey(k, since, since))

\* C17: every score request increases curr_n by exactly one, nothing but
\* init() ever lowers it, and after k requests since the last init() its
\* value is k.
C17_CounterAdvances ==
    /\ [](curr_n = Len(since))
    /\ [][/\ Len(since') = Len(since) + 1 => curr_n' = curr_n + 1
          /\ curr_n' < curr_n => since' = <<>>]_vars

\* the requests reqs with a finite value in the place of every NaN
Finite(reqs) ==
    [i \in 1..Len(reqs) |->
        IF IsNaN(reqs[i].value) THEN [reqs[i] EXCEPT !.value = RInt(1)] ELSE reqs[i]]

\* a NaN was among the values of the first j requests since init() that returned
NaNBy(j) == \E i \in 1..j : IsNaN(since[i].value) /\ outs[i].status = "ok"

\* C18: a request is never rejected for carrying NaN: it is answered as
\* the same request with a finite value is, and when it returns it returns
\* NaN; from then on every output is NaN until init() runs, after which the
\* outputs are finite again.
C18_NaNPropagates ==
    LET finite == RunAll(script, Fresh, Finite(since))
    IN  \A j \in 1..Len(since) :
            /\ outs[j].status = finite[j].status
            /\ outs[j].status = "ok" => (IsNaN(outs[j].body) <=> NaNBy(j))

\* after an init() that followed scored requests, a NaN was scored and
\* returned, and a finite value scored after it returned NaN as well
C18_Witness ==
    /\ resets
    /\ \E i, j \in 1..Len(since) :
         /\ i < j
         /\ IsNaN(since[i].value) /\ outs[i].status = "ok"
         /\ ~IsNaN(since[j].value) /\ outs[j].status = "ok" /\ IsNaN(outs[j].body)

\* x <= y for floats that are not NaN
RLeq(x, y) == x[1] * y[2] <= y[1] * x[2]

RECURSIVE RSum(_)
RSum(seq) == IF seq = <<>> THEN RInt(0) ELSE RAdd(Head(seq), RSum(Tail(seq)))

\* the arithmetic mean of a non-empty sequence of floats
RMean(seq) == RDiv(RSum(seq), RInt(Len(seq)))

\* the first j requests since init() all returned
AllReturned(j) == \A k \in 1..j : outs[k].status = "ok"

\* C23: once more than n requests have been scored since init(), the value
\* run returns is the arithmetic mean of the n most recent values.
C23_MeanOfLastN ==
    \A j \in 1..Len(since), w \in 1..N_ARG :
        (AllReturned(j) /\ WindowIs(script, SubSeq(since, 1, j), w) /\ j > w)
            => outs[j].body = RMean(SubSeq(ValuesOf(since), j - w + 1, j))

\* every request since init() that names a window length names one >= 1
WindowsPositive ==
    \A k \in 1..Len(since) : n_lookup_fails(script, since[k]) \/ n_arg(script, since[k]) >= 1

\* the values of the requests since init() that returned
Scored == {since[k].value : k \in {h \in 1..Len(since) : outs[h].status = "ok"}}

\* C27: after init() and at least one scored request, with window lengths
\* n >= 1, the running average lies between the smallest and the largest
\* value scored since that init().
C27_AverageWithinRange ==
    (WindowsPositive /\ Scored # {}) =>
        /\ \E v \in Scored : RLeq(v, running_avg)
        /\ \E v \in Scored : RLeq(running_avg, v)

\* three requests were scored with window length 2 and the average is
\* strictly inside the range of their values
C27_Witness ==
    /\ Len(since) = 3
    /\ AllReturned(3)
    /\ WindowIs(script, since, 2)
    /\ \E v \in Scored : RLeq(v, running_avg) /\ v # running_avg
    /\ \E v \in Scored : RLeq(running_avg, v) /\ v # running_avg

\* C28: while the number of requests scored since init() is at most the
\* window length n, the value run returns is the exact arithmetic mean of
\* all values scored since that init().
C28_ExactMeanWhileFilling ==
    \A j \in 1..Len(since) :
        (\A k \in 1..j : /\ outs[k].status = "ok"
                         /\ k <= n_arg(script, since[k]))
            => outs[j].body = RMean(SubSeq(ValuesOf(since), 1, j))

\* five requests with differing values were scored with window length 5
C28_Witness ==
    /\ Len(since) = 5
    /\ AllReturned(5)
    /\ WindowIs(script, since, 5)
    /\ since[1].value # since[2].value
    /\ since[4].value # since[5].value

\* C29: for every request, whatever integer n its payload carries, the
\* divisor run uses is at least 1 and at most the window length, and the
\* request does not fail with a division by zero.
C29_DivisorAtLeastOne ==
    [][(Len(since') = Len(since) + 1 /\ ~n_lookup_fails(script, since'[Len(since')])) =>
        LET req == since'[Len(since')]
            d == effective_n(curr_n + 1, n_arg(script, req))
        IN  /\ d >= 1
            /\ d <= n_arg(script, req)
            /\ outs'[Len(outs')].status = "ok"]_vars

\* the globals after the requests of threads t and u are run one after the
\* other on the globals init() leaves
Serial(t, u) ==
    LET first == run(script, init(Globals), calls[t].req)
        second == run(script, first, calls[u].req)
    IN  [running_avg |-> second.running_avg, curr_n |-> second.curr_n]

\* both calls have returned
BothDone == \A t \in Threads : calls[t].pc = "done"

\* C30: score requests are serialisable: whatever the interleaving of the
\* reads and writes of curr_n and running_avg by two requests handled in
\* one process, the final (running_avg, curr_n) is what running the two
\* one after the other in some order gives, and curr_n has grown by two.
C30_Serialisable ==
    BothDone =>
        /\ curr_n = 2
        /\ \E t, u \in Threads : t # u /\ Globals = Serial(t, u)

----------------------------------------------------------------------------
(* run_avg(ts): the online exponential-weighted running average.  Python   *)
(* indexes from 0, so the array element a[i] of the code is a[i + 1] here. *)

\* np.zeros_like(ts)
zeros_like(a) == [i \in 1..Len(a) |-> RInt(0)]

\* range(1, len(rm)) ends where the series ends: rm is the batch mean of the
\* same series and has one entry per row
loop_end(a) == Len(a)

\* a variant of curr_com that drops the cap at com
curr_com_is_index(c, i) == i
\* curr_com = float(min(com, r))
curr_com(c, i) == Min(c, i)

\* rm_o[0]: the first value is copied
run_avg_first(a) == RInt(a[1])

\* rm_o[r]: avg + (value - avg) / (curr_com + 1)
run_avg_update(prev, value, cc) ==
    RAdd(prev, RDiv(RSub(RInt(value), prev), RInt(cc + 1)))

\* rm_o = np.zeros_like(ts); rm_o[0] = ...
RunAvgEnter ==
    /\ ra_pc = "start"
    /\ rm_o' = [zeros_like(ts) EXCEPT ![1] = run_avg_first(ts)]
    /\ r' = 1
    /\ ra_pc' = "loop"
    /\ UNCHANGED <<ts, com, score_vars, detect_vars, sample_vars>>

\* one iteration of for r in range(1, len(rm))
RunAvgIterate ==
    /\ ra_pc = "loop"
    /\ r < loop_end(ts)
    /\ rm_o' = [rm_o EXCEPT ![r + 1] =
                   run_avg_update(rm_o[r], ts[r + 1], curr_com(com, r))]
    /\ r' = r + 1
    /\ UNCHANGED <<ts, com, ra_pc, score_vars, detect_vars, sample_vars>>

\* return rm_o
RunAvgReturn ==
    /\ ra_pc = "loop"
    /\ r >= loop_end(ts)
    /\ ra_pc' = "done"
    /\ UNCHANGED <<ts, com, rm_o, r, score_vars, detect_vars, sample_vars>>

\* the series of 1..MaxLen raw values
SeriesInputs == UNION {[1..len -> SeriesValues] : len \in 1..MaxLen}

\* run_avg is called on a series with a center of mass
RunAvgCalled ==
    /\ ts \in SeriesInputs
    /\ com \in 0..MaxCom
    /\ rm_o = <<>>
    /\ r = 0
    /\ ra_pc = "start"

InitRunAvg == ServiceStarted /\ RaceIdle /\ RunAvgCalled /\ DetectIdle /\ SampleIdle

NextRunAvg == RunAvgEnter \/ RunAvgIterate \/ RunAvgReturn

SpecRunAvg == InitRunAvg /\ [][NextRunAvg]_vars

\* df_s['value'].ewm(com=com).mean() at row t (from 0): the mean of the rows
\* 0..t with weight (com / (com + 1))^i on the row i steps back
RECURSIVE RPow(_, _)
RPow(x, k) == IF k = 0 THEN RInt(1) ELSE RMul(x, RPow(x, k - 1))

RECURSIVE WeightedSum(_, _, _, _)
WeightedSum(a, w, t, i) ==
    IF i > t THEN RInt(0)
    ELSE RAdd(RMul(RPow(w, i), RInt(a[t - i + 1])), WeightedSum(a, w, t, i + 1))

RECURSIVE WeightSum(_, _, _)
WeightSum(w, t, i) ==
    IF i > t THEN RInt(0) ELSE RAdd(RPow(w, i), WeightSum(w, t, i + 1))

ewm_mean(a, c, t) ==
    LET w == Rat(c, c + 1)
    IN  RDiv(WeightedSum(a, w, t, 0), WeightSum(w, t, 0))

----------------------------------------------------------------------------
(* Properties of run_avg.                                                  *)

\* C6: with center of mass 1 the running average of 0.0, 10.0, 0.0 is
\* 0.0, 5.0, 2.5.
C6_ScenarioB ==
    (ra_pc = "done" /\ ts = <<0, 10, 0>> /\ com = 1)
        => rm_o = <<RInt(0), RInt(5), Rat(5, 2)>>

\* run_avg has returned on scenario B
C6_Witness == ra_pc = "done" /\ ts = <<0, 10, 0>> /\ com = 1 /\ Len(rm_o) = 3

\* the divisor of the update at index i: curr_com + 1
divisor(c, i) == curr_com(c, i) + 1

\* C24: over the iterations run_avg has executed, the divisor
\* min(com, r) + 1 at index r never decreases as r grows, and it equals
\* com + 1 at every index r >= com.
C24_DivisorStabilises ==
    ra_pc \in {"loop", "done"} =>
        \A i \in 1..(r - 1) :
            /\ rm_o[i + 1] = RAdd(rm_o[i], RDiv(RSub(RInt(ts[i + 1]), rm_o[i]),
                                               RInt(divisor(com, i))))
            /\ i >= 2 => divisor(com, i - 1) <= divisor(com, i)
            /\ i >= com => divisor(com, i) = com + 1

\* run_avg has returned on a series that is longer than com + 1, so it
\* executed an iteration at an index beyond com
C24_Witness ==
    /\ ra_pc = "done"
    /\ com >= 1
    /\ r - 1 > com

\* C7: for every series and center of mass, the online running average
\* equals the batch exponential-weighted mean at every index beyond the
\* first.
C7_OnlineBatchParity ==
    ra_pc = "done" =>
        \A t \in 1..(Len(ts) - 1) : rm_o[t + 1] = ewm_mean(ts, com, t)

----------------------------------------------------------------------------
(* detect_ts_online(df_smooth, window_size, stop) and eval(df_smooth,      *)
(* window_size, stop).  Both read only the timestamp column of the frame;  *)
(* the value column is read by detect_ts alone, whose verdict is open      *)
(* here.  Row i (from 0) of a frame a is a[i + 1].                         *)

\* the timestamp of row i of a series: chronological and distinct
Stamp(i) == 10 * (i + 1)

\* is_anomaly = False; run_time = 9999 in detect_ts_online, run_time = -1 in eval
initial_run_time(fn) == IF fn = "eval" THEN -1 ELSE 9999

\* a variant of start_index that moves on with every evaluation
start_index_moves(st, ws) == Max(0, st - ws) + Len(windows)
\* a variant of start_index that never drops the oldest rows
start_index_zero(st, ws) == 0
\* start_index = max(0, stop - window_size)
start_index(st, ws) == Max(0, st - ws)

\* df_smooth.iloc[a:b, :] for 0 <= a and 0 <= b: the rows a .. b - 1
iloc(df, a, b) == SubSeq(df, a + 1, Min(b, Len(df)))

\* a variant of the comparison that reads head(1) of the flags
first_flag_is_last_row(win, anoms) ==
    /\ Len(anoms) > 0
    /\ win[Len(win)] = anoms[1]
\* results['anoms'].shape[0] > 0 and
\* df_win['timestamp'].tail(1).values[0] == results['anoms'].tail(1)['timestamp'].values[0]
last_flag_is_last_row(win, anoms) ==
    /\ Len(anoms) > 0
    /\ win[Len(win)] = anoms[Len(anoms)]

\* except ValueError: only eval wraps the call of detect_ts in try
catches_ValueError(fn) == fn = "eval"

\* the exceptions detect_ts ends with.  Its domain error (the window is empty
\* or too short for its seasonal model) is a ValueError; an error about
\* malformed input (a frame that is not a column of timestamps and a column
\* of numbers, a bad argument) is a ValueError as well when the oracle's own
\* validation raises it, and a TypeError when the library under it does.
DomainError == [kind |-> "ValueError", cause |-> "domain"]
MalformedErrors == {[kind |-> t, cause |-> "malformed"] : t \in {"ValueError", "TypeError"}}

\* the except clause selects by the type of the exception, nothing else
caught(fn, kind) == catches_ValueError(fn) /\ kind = "ValueError"

\* what detect_ts can list in results['anoms'] for a window: some of the
\* window's timestamps, each once
Listings(win) ==
    LET S == {win[i] : i \in 1..Len(win)}
    IN  {f \in UNION {[1..k -> S] : k \in 0..Cardinality(S)} :
            \A i, j \in DOMAIN f : i # j => f[i] # f[j]}

\* the first statements of the detector, up to the call of detect_ts
DetectSlice ==
    /\ d_pc = "called"
    /\ is_anomaly' = FALSE
    /\ run_time' = initial_run_time(d_fn)
    /\ df_win' = iloc(df_smooth, start_index(stop, window_size), stop)
    /\ windows' = Append(windows, df_win')
    /\ d_pc' = "oracle"
    /\ UNCHANGED <<d_fn, df_smooth, window_size, stop, results, score_vars, run_avg_vars,
                   sample_vars>>

\* detect_ts returns its flags; the detector times the call, compares the
\* last flag with the last row of the window and returns
OracleFlags ==
    /\ d_pc = "oracle"
    /\ df_win # <<>>
    /\ \E anoms \in Listings(df_win), elapsed \in ElapsedTimes :
         /\ results' = [kind |-> "anoms", anoms |-> anoms]
         /\ run_time' = elapsed
         /\ is_anomaly' = last_flag_is_last_row(df_win, anoms)
    /\ d_pc' = "returned"
    /\ UNCHANGED <<d_fn, df_smooth, window_size, stop, df_win, windows, score_vars,
                   run_avg_vars, sample_vars>>

\* detect_ts raises ValueError (the window is empty or too short for its
\* seasonal model): eval passes and returns, detect_ts_online lets it through
OracleValueError ==
    /\ d_pc = "oracle"
    /\ results' = DomainError
    /\ d_pc' = IF caught(d_fn, DomainError.kind) THEN "returned" ELSE "raised"
    /\ UNCHANGED <<d_fn, df_smooth, window_size, stop, df_win, is_anomaly, run_time,
                   windows, score_vars, run_avg_vars, sample_vars>>

\* detect_ts raises an error about malformed input: eval passes and returns
\* when the error is a ValueError, and lets it through otherwise;
\* detect_ts_online lets every error through
OracleMalformed ==
    /\ d_pc = "oracle"
    /\ \E e \in MalformedErrors :
         /\ results' = e
         /\ d_pc' = IF caught(d_fn, e.kind) THEN "returned" ELSE "raised"
    /\ UNCHANGED <<d_fn, df_smooth, window_size, stop, df_win, is_anomaly, run_time,
                   windows, score_vars, run_avg_vars, sample_vars>>

\* a detector is called on a series, a window size and a row index of the series
DetectCalled ==
    /\ d_fn \in {"detect_ts_online", "eval"}
    /\ \E rows \in 1..MaxRows : df_smooth = [i \in 1..rows |-> Stamp(i - 1)]
    /\ window_size \in 1..MaxWindow
    /\ stop \in 0..(Len(df_smooth) - 1)
    /\ df_win = <<>>
    /\ results = [kind |-> "none"]
    /\ is_anomaly = FALSE
    /\ run_time = 0
    /\ d_pc = "called"
    /\ windows = <<>>

\* the same call is evaluated again, with nothing changed in between: a
\* new frame with the same arguments
DetectAgain ==
    /\ d_pc \in {"returned", "raised"}
    /\ Len(windows) < MaxEvals
    /\ df_win' = <<>>
    /\ results' = [kind |-> "none"]
    /\ is_anomaly' = FALSE
    /\ run_time' = 0
    /\ d_pc' = "called"
    /\ UNCHANGED <<d_fn, df_smooth, window_size, stop, windows, score_vars, run_avg_vars,
                   sample_vars>>

InitDetect == ServiceStarted /\ RaceIdle /\ RunAvgIdle /\ DetectCalled /\ SampleIdle

NextDetect ==
    DetectSlice \/ OracleFlags \/ OracleValueError \/ OracleMalformed \/ DetectAgain

SpecDetect == InitDetect /\ [][NextDetect]_vars

----------------------------------------------------------------------------
(* Properties of the detectors.                                            *)

Flagged == {results.anoms[i] : i \in 1..Len(results.anoms)}

\* the flags are listed oldest first
Chronological(anoms) == \A i, j \in 1..Len(anoms) : i < j => anoms[i] < anoms[j]

C9_DomainErrorAbsorbed ==
    results = DomainError => (d_pc = "returned" /\ ~is_anomaly)

\* C10: for a candidate at row stop, the window handed to the oracle is the
\* trailing window of window_size rows ending at row stop: its last row is
\* the candidate.
C10_WindowEndsAtCandidate ==
    d_pc \in {"oracle", "returned", "raised"} =>
        df_win = SubSeq(df_smooth, Max(0, stop - window_size + 1) + 1, stop + 1)

\* C11: the window handed to the oracle for stop position k and capacity W
\* has min(k, W) rows, never more than W; for k > W it has exactly W rows,
\* the W rows that precede the stop, oldest first in their original order.
C11_BoundedWindow ==
    d_pc \in {"oracle", "returned", "raised"} =>
        /\ Len(df_win) = Min(stop, window_size)
        /\ Len(df_win) <= window_size
        /\ stop > window_size =>
              df_win = [i \in 1..window_size |-> df_smooth[stop - window_size + i]]

\* the detector has sliced a window of several rows off a series that has
\* more rows than the window before the stop
C11_Witness ==
    /\ d_pc = "oracle"
    /\ window_size >= 2
    /\ stop > window_size
    /\ Len(df_win) = window_size

\* C19: when the oracle raises its domain error, the elapsed value the
\* detector returns is the time that passed between the start of the oracle
\* call and the failure, a non-negative duration, not a placeholder.
C19_ElapsedOnDomainError ==
    (results = DomainError /\ d_pc = "returned") => run_time \in ElapsedTimes

\* C20: an oracle error other than the domain error is not absorbed: it
\* propagates to the caller and the detector returns no verdict.
C20_OtherErrorsPropagate ==
    results \in MalformedErrors => d_pc = "raised"

----------------------------------------------------------------------------
(* sample_run(df, window_size, com): the evaluation harness.  Every        *)
(* machine of df has the same MaxRows timestamps.  Of each series the      *)
(* harness reads the timestamps only; the smoothed values go to detect_ts, *)
(* whose verdict is open here.  The arrays random_machines and             *)
(* random_timestamps are drawn entry by entry, when trial i reads them.    *)

\* df['machineID'].unique()
MachineIDs == {1, 2}

\* df['datetime'].unique(), and the timestamp column of every df_s
datetimes == [k \in 1..MaxRows |-> Stamp(k - 1)]

\* a variant of timestamps that keeps the first window_size points
timestamps_uncut(ws) == datetimes
\* timestamps = df['datetime'].unique()[window_size:]
timestamps(ws) == SubSeq(datetimes, ws + 1, Len(datetimes))

\* what batch AD can have flagged on one series: the first timestamp, which
\* is outside every usable range, and the last, which is inside every one
AnomSets == SUBSET {Stamp(0), Stamp(MaxRows - 1)}

\* the contents of anoms.csv: machine 1 with any of these, machine 2 with
\* no anomaly at all
GroundTruths == {gt \in [MachineIDs -> AnomSets] : gt[2] = {}}

\* anoms_s['datetime'] for machine m
anoms_s(m) == anoms_batch[m]

\* np.random.shuffle(anoms_timestamps): every order of the same timestamps
Shuffles(S) ==
    {f \in [1..Cardinality(S) -> S] : \A a, b \in 1..Cardinality(S) : a # b => f[a] # f[b]}

\* a variant of the while condition that accepts every anomaly
never_before_usable(at, ws) == FALSE
\* while anoms_timestamps[0] < timestamps[0]
before_usable(at, ws) == at[1] < timestamps(ws)[1]

\* the literal of if counter > 100
RESAMPLE_LIMIT == 100

\* a variant of the test that gives up one attempt later
exhausted_late(c) == c > RESAMPLE_LIMIT + 1
\* if counter > 100
exhausted(c) == c > RESAMPLE_LIMIT

\* return 0.0, 9999.0
SENTINEL == <<RInt(0), RInt(9999)>>

\* test_case.index.values[0]: the row (from 0) of df_smooth that carries timestamp t
test_case_index(t) == (CHOOSE k \in 1..Len(datetimes) : datetimes[k] = t) - 1

\* y_true_i = random_timestamps[i] in anoms_s['datetime'].values
in_ground_truth(t, m) == t \in anoms_s(m)

\* the trials with y_true = a and y_pred = b
Count(yt, yp, a, b) == Cardinality({k \in 1..Len(yt) : yt[k] = a /\ yp[k] = b})

\* score: fbeta_score(y_true, y_pred, beta=2), 0.0 when nothing is or is
\* predicted positive
score_of(yt, yp) ==
    LET tp == Count(yt, yp, TRUE, TRUE)
        fn == Count(yt, yp, TRUE, FALSE)
        fp == Count(yt, yp, FALSE, TRUE)
    IN  IF 5 * tp + 4 * fn + fp = 0 THEN RInt(0)
        ELSE Rat(5 * tp, 5 * tp + 4 * fn + fp)

RECURSIVE Sum(_)
Sum(seq) == IF seq = <<>> THEN 0 ELSE Head(seq) + Sum(Tail(seq))

\* np.mean(run_times)
mean(seq) == Rat(Sum(seq), Len(seq))

\* the locals of a trial, before the trial assigns them
TrialLocalsFresh ==
    /\ machine' = 0
    /\ biased' = FALSE
    /\ anoms_timestamps' = <<>>
    /\ counter' = 0
    /\ shuffles' = 0
    /\ candidate' = 0
    /\ y_true_i' = FALSE

\* the frame of detect_ts_online is gone
DetectorLeft ==
    /\ d_fn' = "none"
    /\ df_smooth' = <<>>
    /\ window_size' = 0
    /\ stop' = 0
    /\ df_win' = <<>>
    /\ results' = [kind |-> "none"]
    /\ is_anomaly' = FALSE
    /\ run_time' = 0
    /\ d_pc' = "idle"
    /\ windows' = <<>>

\* the call binds its arguments: the signature has no parameter n_epochs, so
\* a call that passes the keyword ends in TypeError; otherwise n_epochs = 10
\* (here MaxEpochs) and the lists start empty
SampleEnter ==
    /\ s_pc = "called"
    /\ IF requested # NoN
       THEN /\ s_error' = "TypeError"
            /\ s_pc' = "raised"
            /\ UNCHANGED n_epochs
       ELSE /\ n_epochs' = MaxEpochs
            /\ s_pc' = "epoch"
            /\ UNCHANGED s_error
    /\ UNCHANGED <<requested, twice, sr_window_size, anoms_batch, epoch, machine, biased,
                   anoms_timestamps, counter, shuffles, candidate, y_true_i, y_true,
                   y_pred, run_times, run_times_2, s_result,
                   score_vars, run_avg_vars, detect_vars>>

\* trial i begins: its machine, and np.random.random() < p_anoms; in the
\* biased branch the first shuffle of the machine's anomalies, otherwise the
\* timestamp drawn from the usable range
SampleTrial ==
    /\ s_pc = "epoch"
    /\ epoch < n_epochs
    /\ \E m \in MachineIDs, b \in BOOLEAN :
         /\ machine' = m
         /\ biased' = b
         /\ IF b
            THEN /\ \E at \in Shuffles(anoms_s(m)) : anoms_timestamps' = at
                 /\ counter' = 0
                 /\ shuffles' = 1
                 /\ s_pc' = "while"
                 /\ UNCHANGED candidate
            ELSE /\ \E k \in 1..Len(timestamps(sr_window_size)) :
                        candidate' = timestamps(sr_window_size)[k]
                 /\ s_pc' = "select"
                 /\ UNCHANGED <<anoms_timestamps, counter, shuffles>>
    /\ UNCHANGED <<requested, twice, sr_window_size, anoms_batch, n_epochs, epoch, y_true_i,
                   y_true, y_pred, run_times, run_times_2, s_result, s_error,
                   score_vars, run_avg_vars, detect_vars>>

\* anoms_timestamps[0] of an empty array: IndexError
SampleIndexError ==
    /\ s_pc = "while"
    /\ anoms_timestamps = <<>>
    /\ s_error' = "IndexError"
    /\ s_pc' = "raised"
    /\ UNCHANGED <<requested, twice, sr_window_size, anoms_batch, n_epochs, epoch, machine,
                   biased, anoms_timestamps, counter, shuffles, candidate, y_true_i,
                   y_true, y_pred, run_times, run_times_2, s_result,
                   score_vars, run_avg_vars, detect_vars>>

\* one pass of the while body: shuffle again and count
SampleResample ==
    /\ s_pc = "while"
    /\ anoms_timestamps # <<>>
    /\ before_usable(anoms_timestamps, sr_window_size)
    /\ ~exhausted(counter)
    /\ \E at \in Shuffles(anoms_s(machine)) : anoms_timestamps' = at
    /\ counter' = counter + 1
    /\ shuffles' = shuffles + 1
    /\ UNCHANGED <<requested, twice, sr_window_size, anoms_batch, n_epochs, epoch, machine,
                   biased, candidate, y_true_i, y_true, y_pred, run_times, run_times_2,
                   s_result, s_error, s_pc, score_vars, run_avg_vars, detect_vars>>

\* if counter > 100: return 0.0, 9999.0
SampleExhausted ==
    /\ s_pc = "while"
    /\ anoms_timestamps # <<>>
    /\ before_usable(anoms_timestamps, sr_window_size)
    /\ exhausted(counter)
    /\ s_result' = SENTINEL
    /\ s_pc' = "returned"
    /\ UNCHANGED <<requested, twice, sr_window_size, anoms_batch, n_epochs, epoch, machine,
                   biased, anoms_timestamps, counter, shuffles, candidate, y_true_i,
                   y_true, y_pred, run_times, run_times_2, s_error,
                   score_vars, run_avg_vars, detect_vars>>

\* the while condition is false: random_timestamps[i] = anoms_timestamps[0];
\* anoms_timestamps and counter are not read again in this trial
SamplePicked ==
    /\ s_pc = "while"
    /\ anoms_timestamps # <<>>
    /\ ~before_usable(anoms_timestamps, sr_window_size)
    /\ candidate' = anoms_timestamps[1]
    /\ anoms_timestamps' = <<>>
    /\ counter' = 0
    /\ shuffles' = 0
    /\ s_pc' = "select"
    /\ UNCHANGED <<requested, twice, sr_window_size, anoms_batch, n_epochs, epoch, machine,
                   biased, y_true_i, y_true, y_pred, run_times, run_times_2,
                   s_result, s_error, score_vars, run_avg_vars, detect_vars>>

\* test_case_index, y_true_i, and the call
\* detect_ts_online(df_smooth, window_size, test_case_index)
SampleSelect ==
    /\ s_pc = "select"
    /\ y_true_i' = in_ground_truth(candidate, machine)
    /\ d_fn' = "detect_ts_online"
    /\ df_smooth' = datetimes
    /\ window_size' = sr_window_size
    /\ stop' = test_case_index(candidate)
    /\ d_pc' = "called"
    /\ s_pc' = "detect"
    /\ UNCHANGED <<df_win, results, is_anomaly, run_time, windows>>
    /\ UNCHANGED <<requested, twice, sr_window_size, anoms_batch, n_epochs, epoch, machine,
                   biased, anoms_timestamps, counter, shuffles, candidate, y_true,
                   y_pred, run_times, run_times_2, s_result, s_error,
                   score_vars, run_avg_vars>>

\* detect_ts_online has returned: the three appends end trial i.  A second
\* execution given the same draws and the same flags is at the same
\* statement with the same y_true_i and y_pred_i; its two readings of
\* time.time() are its own.
SampleAppend ==
    /\ s_pc = "detect"
    /\ d_pc = "returned"
    /\ y_true' = Append(y_true, y_true_i)
    /\ y_pred' = Append(y_pred, is_anomaly)
    /\ run_times' = Append(run_times, run_time)
    /\ IF twice
       THEN \E elapsed \in ElapsedTimes : run_times_2' = Append(run_times_2, elapsed)
       ELSE UNCHANGED run_times_2
    /\ epoch' = epoch + 1
    /\ s_pc' = "epoch"
    /\ TrialLocalsFresh
    /\ DetectorLeft
    /\ UNCHANGED <<requested, twice, sr_window_size, anoms_batch, n_epochs, s_result, s_error,
                   score_vars, run_avg_vars>>

\* detect_ts_online has raised: sample_run has no try, the exception ends it
SampleRaise ==
    /\ s_pc = "detect"
    /\ d_pc = "raised"
    /\ s_error' = results.kind
    /\ s_pc' = "raised"
    /\ UNCHANGED <<requested, twice, sr_window_size, anoms_batch, n_epochs, epoch, machine,
                   biased, anoms_timestamps, counter, shuffles, candidate, y_true_i,
                   y_true, y_pred, run_times, run_times_2, s_result,
                   score_vars, run_avg_vars, detect_vars>>

\* the loop is over: return score, run_time
SampleReturn ==
    /\ s_pc = "epoch"
    /\ epoch >= n_epochs
    /\ s_result' = <<score_of(y_true, y_pred), mean(run_times)>>
    /\ s_pc' = "returned"
    /\ UNCHANGED <<requested, twice, sr_window_size, anoms_batch, n_epochs, epoch, machine,
                   biased, anoms_timestamps, counter, shuffles, candidate, y_true_i,
                   y_true, y_pred, run_times, run_times_2, s_error,
                   score_vars, run_avg_vars, detect_vars>>

\* sample_run is called on the telemetry with a window size that leaves a
\* usable range, with or without the keyword n_epochs
SampleCalled(tw) ==
    /\ twice = tw
    /\ requested \in {NoN, N(MaxEpochs)}
    /\ sr_window_size \in 1..Min(MaxWindow, MaxRows - 1)
    /\ anoms_batch \in GroundTruths
    /\ n_epochs = 0
    /\ epoch = 0
    /\ machine = 0
    /\ biased = FALSE
    /\ anoms_timestamps = <<>>
    /\ counter = 0
    /\ shuffles = 0
    /\ candidate = 0
    /\ y_true_i = FALSE
    /\ y_true = <<>>
    /\ y_pred = <<>>
    /\ run_times = <<>>
    /\ run_times_2 = <<>>
    /\ s_result = <<>>
    /\ s_error = "none"
    /\ s_pc = "called"

InitSample == ServiceStarted /\ RaceIdle /\ RunAvgIdle /\ DetectIdle /\ SampleCalled(FALSE)

NextSample ==
    \/ SampleEnter \/ SampleTrial \/ SampleIndexError \/ SampleResample
    \/ SampleExhausted \/ SamplePicked \/ SampleSelect
    \/ DetectSlice \/ OracleFlags \/ OracleValueError \/ OracleMalformed
    \/ SampleAppend \/ SampleRaise \/ SampleReturn

SpecSample == InitSample /\ [][NextSample]_vars

\* the interpreter keeps running the call until it returns or raises
SpecSampleFair == SpecSample /\ WF_vars(NextSample)

\* the same call, executed twice with the same draws
InitSampleTwice == ServiceStarted /\ RaceIdle /\ RunAvgIdle /\ DetectIdle /\ SampleCalled(TRUE)

SpecSampleTwice == InitSampleTwice /\ [][NextSample]_vars

----------------------------------------------------------------------------
(* Properties of sample_run.                                               *)

\* the timestamp the verdict of the detector is about: the last row of the
\* window it handed to the oracle
Judged == df_win[Len(df_win)]

\* C12: in every trial the recorded y_true is true exactly when the
\* candidate timestamp is in the batch ground truth of the trial's own
\* machine, and the recorded y_pred is the detector's verdict about that
\* same candidate timestamp.
C12_LabelsSameCandidate ==
    (s_pc = "detect" /\ d_pc = "returned") =>
        /\ y_true_i <=> candidate \in anoms_batch[machine]
        /\ df_win # <<>>
        /\ Judged = candidate

\* C13: the resampling loop ends on every input: it never runs more than
\* 102 shuffles of the anomaly list, and a trial that is in the loop leaves it.
C13_ResamplingTerminates ==
    /\ [](shuffles <= RESAMPLE_LIMIT + 2)
    /\ (s_pc = "while") ~> (s_pc # "while")

\* the loop has run out of attempts: 102 shuffles, then the sentinel
C13_Witness ==
    /\ s_pc = "returned"
    /\ shuffles = RESAMPLE_LIMIT + 2
    /\ counter = RESAMPLE_LIMIT + 1
    /\ s_result = SENTINEL

\* the anomalies of machine m inside the usable range
UsableAnoms(m) == {t \in anoms_s(m) : t >= timestamps(sr_window_size)[1]}

\* C14: when the series of a trial that looks for an anomaly has none
\* inside the usable range (its ground-truth anomaly set may be empty),
\* sample_run returns (0.0, 9999.0) and does not raise.
C14_SentinelWhenNoUsableAnomaly ==
    (biased /\ UsableAnoms(machine) = {} /\ s_pc \notin {"while"}) =>
        /\ s_pc = "returned"
        /\ s_error = "none"
        /\ s_result = SENTINEL

\* what the second execution returns where the first one has returned
s_result_2 ==
    IF epoch >= n_epochs
    THEN <<score_of(y_true, y_pred), mean(run_times_2)>>
    ELSE SENTINEL

\* C15: two executions of sample_run on the same arguments that receive the
\* same random draws return the same pair: the same score and the same mean
\* elapsed time.
C15_SameDrawsSameAggregates ==
    s_pc = "returned" => s_result = s_result_2

\* C16: sample_run runs the number of trials the caller requests: the call
\* is accepted, and on normal completion it has accumulated that many
\* (y_true, y_pred, elapsed) triples.
C16_RequestedTrialCount ==
    requested # NoN =>
        /\ s_error # "TypeError"
        /\ (s_pc = "returned" /\ epoch >= n_epochs) =>
              /\ Len(y_true) = requested[1]
              /\ Len(y_pred) = requested[1]
              /\ Len(run_times) = requested[1]

\* C21: every candidate timestamp sample_run evaluates, drawn at random or
\* taken from the ground-truth anomalies, lies outside the first
\* window_size points of its series, so every window passed to the
\* detector has the full length window_size.
C21_FullWindows ==
    /\ s_pc \in {"select", "detect"} => test_case_index(candidate) >= sr_window_size
    /\ (s_pc = "detect" /\ d_pc \in {"oracle", "returned", "raised"})
          => Len(df_win) = sr_window_size

\* the detector was handed the window of a candidate taken from the
\* ground-truth anomalies, with a window size above 1
C21_Witness ==
    /\ s_pc = "detect"
    /\ d_pc = "oracle"
    /\ biased
    /\ sr_window_size >= 2
    /\ Len(df_win) = sr_window_size

\* C25: when a trial takes the biased branch and leaves the loop without
\* the sentinel, the candidate is a ground-truth anomaly of the selected
\* machine, not earlier than the first usable timestamp, and the y_true the
\* trial records is true.
C25_BiasedCandidateIsAnomaly ==
    /\ []((biased /\ s_pc \in {"select", "detect"}) =>
            /\ candidate \in anoms_s(machine)
            /\ candidate >= timestamps(sr_window_size)[1]
            /\ s_pc = "detect" => y_true_i)
    /\ [][(biased /\ s_pc = "detect" /\ s_pc' = "epoch") =>
            y_true'[Len(y_true')] = TRUE]_vars

\* a biased trial on a machine with an anomaly on either side of the first
\* usable timestamp has left the loop and the detector has returned on its
\* candidate
C25_Witness ==
    /\ biased
    /\ s_pc = "detect"
    /\ d_pc = "returned"
    /\ y_true_i
    /\ anoms_s(machine) = {Stamp(0), Stamp(MaxRows - 1)}

\* C26: sample_run returns (0.0, 9999.0) only if the selected series has no
\* ground-truth anomaly inside the usable range: whenever one exists, every
\* outcome of the shuffles ends with one selected and the trial proceeding.
C26_SentinelOnlyIfNoneUsable ==
    (s_pc = "returned" /\ s_result = SENTINEL) => UsableAnoms(machine) = {}

====
